---- MODULE Spec2Model ----
(***************************************************************************)
(* Ownership / lifetime tracking protocol of the moveref crate:            *)
(* SlotStorage (backing storage + tracker + drop kind), Slot (one-shot     *)
(* capability), MoveRef (uniquely owning handle).                          *)
(*                                                                         *)
(* Memory is a map from addresses to cells.  Storage s keeps its           *)
(* MaybeUninit<T> at address s; the heap allocation of the Box that holds  *)
(* object o is at address NumStorages + o.  Every successful construction  *)
(* creates one object o (a value together with its destructor obligation)  *)
(* and one MoveRef, which is recorded as handle[o], where o is the serial  *)
(* number of the Slot that was consumed.  MaxCalls bounds the number of    *)
(* SlotStorage::new and SlotStorage::slot calls in a run.                  *)
(***************************************************************************)
EXTENDS Integers, FiniteSets, Sequences, TLC

\* ------------------------------------------------------------------ bounds
MaxCalls == 4
MaxVal == 2

\* with MaxCalls calls there are at most MaxCalls storages, and at most
\* MaxCalls - 1 slots of them
NumStorages == MaxCalls
MaxSlots == MaxCalls - 1

Storages == 1..NumStorages
Objs == 1..MaxSlots
Values == 1..MaxVal
HeapAddr(o) == NumStorages + o
Addrs == 1..(NumStorages + MaxSlots)
\* a run emplaces at most as many smart pointers as it projects slots
Ptrs == 1..MaxSlots
\* a run makes at most MaxNews values of new::by, new::of and new::default
MaxNews == 2
News == 1..MaxNews

VARIABLES
    debug,      \* cfg!(debug_assertions) of the build
    mode,       \* "running" | "panicking" (unwinding) | "aborted"
    storage,    \* storage[s]: state, kind, type of the SlotStorage local s, how its
                \* drop returned, and how many construction calls it received
    tracker,    \* tracker[s]: the SlotStorageTracker of storage s
    slot,       \* slot[s]: serial number of the projected, unconsumed Slot of s (0: none)
    memory,     \* memory[a]: the cell at address a
    handle,     \* handle[o]: the MoveRef created by the construction of object o
    dtor,       \* dtor[o]: how often o's destructor ran, by who ran it
    freed,      \* freed[o]: how often the heap allocation of o's Box was freed
    result,     \* what the step just taken returned, if it was a construction call
    slots,      \* number of Slots projected so far
    heap,       \* heap[p]: the p-th smart pointer made by Emplace, with its allocation
    env,        \* what the caller's value-producing thunk returns when it is called now
    news        \* news[n]: the n-th New made by new::by, of or default

vars == <<debug, mode, storage, tracker, slot, memory, handle, dtor, freed,
          result, slots, heap, env, news>>

\* ------------------------------------------------------------ memory cells
Uninit == [tag |-> "uninit", val |-> 0, obj |-> 0, ptr |-> 0]
Val(v, o) == [tag |-> "val", val |-> v, obj |-> o, ptr |-> 0]
BoxOf(a) == [tag |-> "box", val |-> 0, obj |-> 0, ptr |-> a]
\* the cell of object o after its value was destroyed or moved out
Dead(o) == [tag |-> "dead", val |-> 0, obj |-> o, ptr |-> 0]

\* -------------------------------------------------- SlotStorageTracker ops
SlotStorageTracker_new ==
    [initialized |-> FALSE, released |-> FALSE, references |-> 0]

is_initialized(t) == t.initialized

\* mutant: the released flag always reads false
is_released_never(t) == FALSE

is_released(t) == t.released

is_reference_zeroed(t) == t.references = 0

\* mutant: the initialized test inverted
is_uninitialized_inverted(t) == is_reference_zeroed(t) /\ is_initialized(t)

is_uninitialized(t) == is_reference_zeroed(t) /\ ~is_initialized(t)

\* mutant: the released flag is not consulted
is_leaking_unreleased(t) == is_initialized(t) /\ ~is_reference_zeroed(t)

is_leaking(t) == ~is_released(t) /\ is_initialized(t) /\ ~is_reference_zeroed(t)

\* mutant: the count goes up by two
increment_by_two(t) == [t EXCEPT !.references = @ + 2]

increment(t) == [t EXCEPT !.references = @ + 1]

decrement(t) == [t EXCEPT !.references = @ - 1]

\* mutant: the count goes up and the flag is left alone
initialize_count_only(t) == increment(t)

\* mutant: the flag is set and the count is left alone
initialize_flag_only(t) == [t EXCEPT !.initialized = TRUE]

initialize(t) == increment([t EXCEPT !.initialized = TRUE])

\* mutant: the status is not marked
release_unmarked(t) == t

release(t) == [t EXCEPT !.released = TRUE]

terminate(t) == decrement(t)

\* The same operations with their debug_assert!s, which are compiled in only
\* when debug_assertions is on: whether the call panics, and the status it
\* leaves behind.
initialize_checked(dbg, t) ==
    IF dbg /\ is_initialized(t)
    THEN [panic |-> TRUE, status |-> t]
    ELSE IF dbg /\ ~is_reference_zeroed(t)
    THEN [panic |-> TRUE, status |-> [t EXCEPT !.initialized = TRUE]]
    ELSE [panic |-> FALSE, status |-> initialize(t)]

terminate_checked(dbg, t) ==
    IF dbg /\ is_reference_zeroed(t)
    THEN [panic |-> TRUE, status |-> t]
    ELSE IF dbg /\ ~is_reference_zeroed(terminate(t))
    THEN [panic |-> TRUE, status |-> terminate(t)]
    ELSE [panic |-> FALSE, status |-> terminate(t)]

\* ------------------------------------------------------------ records
Kinds == {"Drop", "Keep"}

\* what the SlotStorage<T> is instantiated at, inferred from its first use:
\* T itself, Box<MaybeUninit<T>> (IntoMove::Storage of Box<T>), or ()
\* (IntoMove::Storage of MoveRef<T>)
Types == {"val", "box", "unit"}

NoStorage ==
    [state |-> "absent", kind |-> "none", ty |-> "none", exit |-> "none", built |-> 0,
     lent |-> 0]

NoHandle ==
    [state |-> "none", ptr |-> 0, status |-> 0, pinned |-> FALSE,
     made |-> 0, ret |-> 0, raw |-> 0]

NoDtor == [handle |-> 0, storage |-> 0, caller |-> 0]

\* a New that was not made yet: the value it holds, how often the thunk
\* it was made from has run, and the smart pointer it was placed into
NoNew == [state |-> "none", val |-> 0, calls |-> 0, dst |-> 0]

NoPtr == [state |-> "none", kind |-> "none", pinned |-> FALSE, cell |-> Uninit]

\* a TryNew: the construction procedure either writes val or reports an error
Ok(v) == [ok |-> TRUE, val |-> v]
Err == [ok |-> FALSE, val |-> 0]

Ran(d, o, who) == [d EXCEPT ![o][who] = @ + 1]

\* the memory after the value at address a was destroyed or moved out
Vacate(m, a) == [m EXCEPT ![a] = Dead(m[a].obj)]

\* a MoveRef that is gone keeps no pointer or value
Disposed(h, how) == [NoHandle EXCEPT !.state = how, !.status = h.status]

Live(o) == handle[o].state = "live"

\* a Slot<'frame> or a MoveRef<'frame> keeps the &mut borrow of the storage;
\* storage[s].lent is the MoveRef that was deref-moved into a Slot of s and
\* has the lifetime of that Slot since
Borrowed(s) ==
    \/ slot[s] # 0
    \/ \E o \in Objs : Live(o) /\ (handle[o].status = s \/ storage[s].lent = o)

\* the SlotStorage::new and SlotStorage::slot calls made so far
Calls == Cardinality({s \in Storages : storage[s].state # "absent"}) + slots

\* the values that exist somewhere in the program
Present ==
    {memory[a].val : a \in Addrs}
        \cup {handle[o].made : o \in Objs} \cup {handle[o].ret : o \in Objs}

\* T is opaque to the crate, which never inspects a value: a caller's value
\* is one that exists already, or the first one that does not
Choices ==
    {v \in Values : v \in Present \/ \A w \in Values \ Present : v <= w}

\* reading through a pointer
Load(a) == memory[a].val

\* a panic starts unwinding; a panic while unwinding aborts the process
Panic == mode' = IF mode = "panicking" THEN "aborted" ELSE "panicking"

\* ------------------------------------------------------------------ Init
Init ==
    /\ debug \in BOOLEAN
    /\ mode = "running"
    /\ storage = [s \in Storages |-> NoStorage]
    /\ tracker = [s \in Storages |-> SlotStorageTracker_new]
    /\ slot = [s \in Storages |-> 0]
    /\ memory = [a \in Addrs |-> Uninit]
    /\ handle = [o \in Objs |-> NoHandle]
    /\ dtor = [o \in 0..MaxSlots |-> NoDtor]
    /\ freed = [o \in Objs |-> 0]
    /\ result = "none"
    /\ slots = 0
    /\ heap = [p \in Ptrs |-> NoPtr]
    /\ env = 1
    /\ news = [n \in News |-> NoNew]

\* ----------------------------------------------------------- SlotStorage
\* SlotStorage::new(kind): locals are declared in order
SlotStorage_new(s, kind) ==
    /\ mode = "running"
    /\ storage[s].state = "absent"
    /\ \A r \in Storages : r < s => storage[r].state # "absent"
    /\ Calls < MaxCalls
    /\ storage' = [storage EXCEPT ![s] =
                     [state |-> "live", kind |-> kind, ty |-> "none", exit |-> "none",
                      built |-> 0, lent |-> 0]]
    /\ tracker' = [tracker EXCEPT ![s] = SlotStorageTracker_new]
    /\ memory' = [memory EXCEPT ![s] = Uninit]
    /\ result' = "none"
    /\ UNCHANGED <<debug, heap, env, news, mode, slot, handle, dtor, freed, slots>>

\* mutant: projecting a Slot starts the tracker afresh
SlotStorage_slot_reset(s) ==
    /\ mode = "running"
    /\ storage[s].state = "live"
    /\ ~Borrowed(s)
    /\ Calls < MaxCalls
    /\ slots' = slots + 1
    /\ slot' = [slot EXCEPT ![s] = slots + 1]
    /\ tracker' = [tracker EXCEPT ![s] = SlotStorageTracker_new]
    /\ result' = "none"
    /\ UNCHANGED <<debug, heap, env, news, mode, storage, memory, handle, dtor, freed>>

\* SlotStorage::slot(&mut self)
SlotStorage_slot(s) ==
    /\ mode = "running"
    /\ storage[s].state = "live"
    /\ ~Borrowed(s)
    /\ Calls < MaxCalls
    /\ slots' = slots + 1
    /\ slot' = [slot EXCEPT ![s] = slots + 1]
    /\ result' = "none"
    /\ UNCHANGED <<debug, heap, env, news, mode, storage, tracker, memory, handle, dtor, freed>>

\* MaybeUninit::assume_init_drop on the storage memory: the destructor of
\* whatever the storage type holds (a T, or a Box<MaybeUninit<T>> whose drop
\* frees the allocation and runs no destructor of T)
\* mutant: the storage type is Box<T>, whose drop runs T's destructor; the
\* allocation is not given back
assume_init_drop_referent(s) ==
    LET cell == memory[s] IN
    /\ dtor' = Ran(dtor, IF cell.tag = "box" THEN memory[cell.ptr].obj ELSE cell.obj,
                   "storage")
    /\ UNCHANGED freed
    /\ memory' = [memory EXCEPT ![s] = Uninit]

assume_init_drop(s) ==
    LET cell == memory[s] IN
    /\ dtor' = IF cell.tag = "box" THEN dtor ELSE Ran(dtor, cell.obj, "storage")
    /\ freed' = IF cell.tag = "box"
                THEN [freed EXCEPT ![cell.ptr - NumStorages] = @ + 1]
                ELSE freed
    /\ memory' = IF cell.tag = "box"
                 THEN [memory EXCEPT ![s] = Uninit, ![cell.ptr] = Uninit]
                 ELSE [memory EXCEPT ![s] = Uninit]

\* mutant: the second panic is left out (DropAndPanic under cfg!(test)) and
\* the first one unwinds
Aborted_unwinds ==
    /\ Panic
    /\ UNCHANGED <<memory, handle>>

\* the process is gone, and its memory with it
Aborted ==
    /\ mode' = "aborted"
    /\ memory' = [a \in Addrs |-> Uninit]
    /\ handle' = [o \in Objs |->
                    Disposed(handle[o], IF Live(o) THEN "aborted" ELSE handle[o].state)]

\* impl Drop for SlotStorage (with non_unwinding_panic_abort)
SlotStorage_drop(s) ==
    LET status == tracker[s] IN
    /\ mode \in {"running", "panicking"}
    /\ storage[s].state = "live"
    /\ ~Borrowed(s)
    /\ IF is_uninitialized(status)
       THEN /\ storage' = [storage EXCEPT ![s].state = "dropped", ![s].exit = "uninit"]
            /\ memory' = [memory EXCEPT ![s] = Uninit]
            /\ UNCHANGED <<mode, dtor, freed, handle>>
       ELSE IF is_leaking(status)
       THEN /\ storage' = [storage EXCEPT ![s].state = "aborted", ![s].exit = "abort"]
            /\ Aborted
            /\ UNCHANGED <<dtor, freed>>
       ELSE IF storage[s].kind = "Drop"
       THEN /\ storage' = [storage EXCEPT ![s].state = "dropped", ![s].exit = "drop"]
            /\ assume_init_drop(s)
            /\ UNCHANGED <<mode, handle>>
       ELSE /\ storage' = [storage EXCEPT ![s].state = "dropped", ![s].exit = "keep"]
            /\ memory' = [memory EXCEPT ![s] = Uninit]
            /\ UNCHANGED <<mode, dtor, freed, handle>>
    /\ result' = "none"
    /\ UNCHANGED <<debug, heap, env, news, tracker, slot, slots>>

\* ------------------------------------------------------------------ Slot
\* a Slot has no Drop impl: letting it go changes nothing
Slot_discard(s) ==
    /\ mode \in {"running", "panicking"}
    /\ slot[s] # 0
    /\ slot' = [slot EXCEPT ![s] = 0]
    /\ result' = "none"
    /\ UNCHANGED <<debug, heap, env, news, mode, storage, tracker, memory, handle, dtor, freed,
                   slots>>

\* TryNew::try_new of a procedure that succeeds: what it leaves in the memory
\* (new::by: dst.set(MaybeUninit::new(val)))
\* mutant: the procedure returns Ok without writing the memory
try_new_unwritten(new, o) == Uninit

try_new(new, o) == Val(new.val, o)

\* new::of(val)
of(v) == Ok(v)

\* Slot::try_emplace(self, new); pin = FALSE when the caller (Slot::put)
\* unwraps the Pin again
Slot_try_emplace(s, new, pin) ==
    /\ mode = "running"
    /\ slot[s] # 0
    /\ storage[s].ty \in {"none", "val"}
    /\ storage' = [storage EXCEPT ![s].ty = "val", ![s].built = @ + 1]
    /\ slot' = [slot EXCEPT ![s] = 0]
    /\ tracker' = [tracker EXCEPT ![s] = initialize_checked(debug, @).status]
    /\ IF initialize_checked(debug, tracker[s]).panic
       THEN /\ Panic
            /\ result' = "panic"
            /\ UNCHANGED <<memory, handle>>
       ELSE /\ UNCHANGED mode
            /\ IF new.ok
               THEN /\ memory' = [memory EXCEPT ![s] = try_new(new, slot[s])]
                    /\ handle' = [handle EXCEPT ![slot[s]] =
                          [state |-> "live", ptr |-> s, status |-> s,
                           pinned |-> pin, made |-> new.val,
                           ret |-> 0, raw |-> 0]]
                    /\ result' = "ok"
               ELSE /\ result' = "err"
                    /\ UNCHANGED <<memory, handle>>
    /\ UNCHANGED <<debug, heap, env, news, dtor, freed, slots>>

TryEmplace(s, new) == Slot_try_emplace(s, new, TRUE)

\* Slot::emplace: the infallible form
Slot_emplace(s, v) == Slot_try_emplace(s, Ok(v), TRUE)

\* Slot::pin(val) = emplace(new::of(val))
Slot_pin(s, v) == Slot_try_emplace(s, of(v), TRUE)

\* Slot::put(val) = Pin::into_inner_unchecked(pin(val))
Slot_put(s, v) == Slot_try_emplace(s, of(v), FALSE)

\* MoveRef::into_pin(self): Pin::new_unchecked(self)
\* mutant: the MoveRef is returned as it is
into_pin_unpinned(h) == h

into_pin(h) == [h EXCEPT !.pinned = TRUE]

\* DerefMove for Box<T>: Slot::write of the Box (cast to Box<MaybeUninit<T>>)
\* into the storage; the MoveRef points at the heap referent
Box_move_body(s, v, pin) ==
    LET o == slot[s]
        mov == [state |-> "live", ptr |-> HeapAddr(o), status |-> s,
                pinned |-> FALSE, made |-> v, ret |-> 0, raw |-> 0] IN
    /\ mode = "running"
    /\ slot[s] # 0
    /\ storage[s].ty \in {"none", "box"}
    /\ storage' = [storage EXCEPT ![s].ty = "box", ![s].built = @ + 1]
    /\ slot' = [slot EXCEPT ![s] = 0]
    /\ tracker' = [tracker EXCEPT ![s] = initialize_checked(debug, @).status]
    /\ IF initialize_checked(debug, tracker[s]).panic
       THEN /\ Panic
            /\ result' = "panic"
            /\ UNCHANGED <<memory, handle>>
       ELSE /\ UNCHANGED mode
            /\ memory' = [memory EXCEPT ![s] = BoxOf(HeapAddr(o)),
                                        ![HeapAddr(o)] = Val(v, o)]
            /\ handle' = [handle EXCEPT ![o] = IF pin THEN into_pin(mov) ELSE mov]
            /\ result' = "ok"
    /\ UNCHANGED <<debug, heap, env, news, dtor, freed, slots>>

\* impl DerefMove for Box<T>
Box_deref_move(s, v) == Box_move_body(s, v, FALSE)

\* impl IntoMove for Box<T>: MoveRef::into_pin(self.deref_move(storage))
Box_into_move(s, v) == Box_move_body(s, v, TRUE)

\* impl IntoMove for Pin<P> at P = Box<T>: Pin::into_inner_unchecked, then
\* MoveRef::into_pin(P::deref_move(inner, storage))
PinBox_into_move(s, v) == Box_move_body(s, v, TRUE)

\* --------------------------------------------------------------- MoveRef
\* impl Deref for MoveRef
Deref(o) == Load(handle[o].ptr)

\* core::cmp::Ordering of two values of T, and what hashing a value of T
\* feeds the hasher
Ordering(a, b) == IF a < b THEN "Less" ELSE IF a = b THEN "Equal" ELSE "Greater"
Some(x) == [some |-> TRUE, val |-> x]
Fed(a) == <<a>>

\* the comparison, ordering and hashing impls of &mut T, through which the
\* impls of MoveRef go (self.ptr is a &'frame mut T): they act on the referents
\* mutant: the pointers are compared as addresses
ref_eq_address(x, y) == x = y

ref_eq(x, y) == Load(x) = Load(y)
ref_partial_cmp(x, y) == Some(Ordering(Load(x), Load(y)))
ref_lt(x, y) == Load(x) < Load(y)
ref_le(x, y) == Load(x) <= Load(y)
ref_gt(x, y) == Load(x) > Load(y)
ref_ge(x, y) == Load(x) >= Load(y)
ref_cmp(x, y) == Ordering(Load(x), Load(y))
ref_hash(x) == Fed(Load(x))

\* impl PartialEq / PartialOrd / Ord / Hash for MoveRef
MoveRef_eq(o, p) == ref_eq(handle[o].ptr, handle[p].ptr)
MoveRef_partial_cmp(o, p) == ref_partial_cmp(handle[o].ptr, handle[p].ptr)
MoveRef_lt(o, p) == ref_lt(handle[o].ptr, handle[p].ptr)
MoveRef_le(o, p) == ref_le(handle[o].ptr, handle[p].ptr)
MoveRef_gt(o, p) == ref_gt(handle[o].ptr, handle[p].ptr)
MoveRef_ge(o, p) == ref_ge(handle[o].ptr, handle[p].ptr)
MoveRef_cmp(o, p) == ref_cmp(handle[o].ptr, handle[p].ptr)
MoveRef_hash(o) == ref_hash(handle[o].ptr)

\* DerefMove for MoveRef: `return self`
\* mutant: the MoveRef is rebuilt on the Slot it was given
deref_move_onto_slot(h, r) == [h EXCEPT !.ptr = r, !.status = r]

deref_move_self(h, r) == h

\* DerefMove::deref_move / IntoMove::into_move of the MoveRef of object o
\* with the Slot of storage r, which is a SlotStorage<()>
MoveRef_move_body(o, r, pin) ==
    /\ mode = "running"
    /\ Live(o)
    /\ slot[r] # 0
    /\ storage[r].ty \in {"none", "unit"}
    /\ storage' = [storage EXCEPT ![r].ty = "unit", ![r].lent = o]
    /\ slot' = [slot EXCEPT ![r] = 0]
    /\ handle' = [handle EXCEPT ![o] =
                    IF pin
                    THEN into_pin(deref_move_self(@, r))
                    ELSE deref_move_self(@, r)]
    /\ result' = "none"
    /\ UNCHANGED <<debug, heap, env, news, mode, tracker, memory, dtor, freed, slots>>

\* impl DerefMove for MoveRef
MoveRef_deref_move(o, r) ==
    /\ ~handle[o].pinned
    /\ MoveRef_move_body(o, r, FALSE)

\* impl IntoMove for MoveRef, and impl IntoMove for Pin<MoveRef>:
\* MoveRef::into_pin(self.deref_move(storage))
MoveRef_into_move(o, r) == MoveRef_move_body(o, r, TRUE)

\* impl Drop for MoveRef, as a function of the status it sees: whether it
\* panics, the status afterwards, and whether drop_in_place ran
drop_MoveRef(dbg, t) ==
    IF is_released(t)
    THEN [panic |-> FALSE, status |-> t, runs |-> FALSE]
    ELSE [panic |-> terminate_checked(dbg, t).panic,
          status |-> terminate_checked(dbg, t).status,
          runs |-> ~terminate_checked(dbg, t).panic]

\* MoveRef goes out of scope
MoveRef_drop(o) ==
    LET s == handle[o].status
        t == tracker[s] IN
    /\ mode \in {"running", "panicking"}
    /\ Live(o)
    /\ handle' = [handle EXCEPT ![o] = Disposed(@, "dropped")]
    /\ tracker' = [tracker EXCEPT ![s] = drop_MoveRef(debug, t).status]
    /\ dtor' = IF drop_MoveRef(debug, t).runs
               THEN Ran(dtor, memory[handle[o].ptr].obj, "handle")
               ELSE dtor
    /\ memory' = IF drop_MoveRef(debug, t).runs
                 THEN Vacate(memory, handle[o].ptr)
                 ELSE memory
    /\ IF drop_MoveRef(debug, t).panic THEN Panic ELSE UNCHANGED mode
    /\ result' = "none"
    /\ UNCHANGED <<debug, heap, env, news, storage, slot, freed, slots>>

\* MoveRef::into_pin
MoveRef_into_pin(o) ==
    /\ mode = "running"
    /\ Live(o)
    /\ ~handle[o].pinned
    /\ handle' = [handle EXCEPT ![o] = into_pin(@)]
    /\ result' = "none"
    /\ UNCHANGED <<debug, heap, env, news, mode, storage, tracker, slot, memory, dtor, freed,
                   slots>>

\* core::ptr::read(ptr) in MoveRef::into_inner
\* mutant: reads the storage memory instead of the referent
into_inner_read_storage(o) == Load(handle[o].status)

into_inner_read(o) == Load(handle[o].ptr)

\* the body of MoveRef::release: status.release(), then `mov` is dropped at
\* the end of the function
release_MoveRef(dbg, t) == drop_MoveRef(dbg, release(t))

\* MoveRef::release(pin): the tracker and the destructor runs
MoveRef_release_body(o) ==
    LET s == handle[o].status
        t == tracker[s]
        p == handle[o].ptr IN
    /\ tracker' = [tracker EXCEPT ![s] = release_MoveRef(debug, t).status]
    /\ dtor' = IF release_MoveRef(debug, t).runs
               THEN Ran(dtor, memory[p].obj, "handle")
               ELSE dtor
    /\ IF release_MoveRef(debug, t).panic THEN Panic ELSE UNCHANGED mode

\* MoveRef::release(pin): the caller keeps the returned raw pointer
MoveRef_release(o) ==
    /\ mode = "running"
    /\ Live(o)
    /\ handle[o].pinned
    /\ MoveRef_release_body(o)
    /\ handle' = [handle EXCEPT ![o] =
                    [Disposed(@, "released") EXCEPT !.raw = handle[o].ptr]]
    /\ memory' = IF release_MoveRef(debug, tracker[handle[o].status]).runs
                 THEN Vacate(memory, handle[o].ptr)
                 ELSE memory
    /\ result' = "none"
    /\ UNCHANGED <<debug, heap, env, news, storage, slot, freed, slots>>

\* MoveRef::into_inner(self): release, then ptr::read moves the value out
MoveRef_into_inner(o) ==
    /\ mode = "running"
    /\ Live(o)
    /\ MoveRef_release_body(o)
    /\ handle' = [handle EXCEPT ![o] =
                    [Disposed(@, "extracted") EXCEPT !.ret = into_inner_read(o)]]
    /\ memory' = Vacate(memory, handle[o].ptr)
    /\ result' = "none"
    /\ UNCHANGED <<debug, heap, env, news, storage, slot, freed, slots>>

\* MoveNew::move_new(this, that) as trivial_move! generates it:
\* that.write(MoveRef::into_inner(Pin::into_inner_unchecked(this))); the
\* destination `that` is memory of the caller, whose content is kept in
\* handle[o].ret: the caller owns the value as it owns one that into_inner
\* returned
MoveNew_move_new(o) ==
    /\ mode = "running"
    /\ Live(o)
    /\ handle[o].pinned
    /\ MoveRef_release_body(o)
    /\ handle' = [handle EXCEPT ![o] =
                    [Disposed(@, "extracted") EXCEPT !.ret = into_inner_read(o)]]
    /\ memory' = Vacate(memory, handle[o].ptr)
    /\ result' = "none"
    /\ UNCHANGED <<debug, heap, env, news, storage, slot, freed, slots>>

\* core::mem::forget(move_ref)
mem_forget(o) ==
    /\ mode = "running"
    /\ Live(o)
    /\ handle' = [handle EXCEPT ![o] = Disposed(@, "forgotten")]
    /\ result' = "none"
    /\ UNCHANGED <<debug, heap, env, news, mode, storage, tracker, slot, memory, dtor, freed,
                   slots>>

\* ---------------------------------------------------------------- caller
\* the raw pointer that release returned for object o still points at o:
\* its memory was neither deallocated nor written again
Valid(o) ==
    LET cell == memory[handle[o].raw] IN
    cell.tag = "val" /\ cell.obj = o

\* after release the caller destroys the value through the returned pointer
manual_destroy(o) ==
    /\ mode = "running"
    /\ handle[o].state = "released"
    /\ Valid(o)
    /\ handle' = [handle EXCEPT ![o] = Disposed(@, "destroyed")]
    /\ dtor' = Ran(dtor, memory[handle[o].raw].obj, "caller")
    /\ memory' = Vacate(memory, handle[o].raw)
    /\ result' = "none"
    /\ UNCHANGED <<debug, heap, env, news, mode, storage, tracker, slot, freed, slots>>

\* the value returned by into_inner goes out of scope
drop_extracted(o) ==
    /\ mode \in {"running", "panicking"}
    /\ handle[o].state = "extracted"
    /\ handle' = [handle EXCEPT ![o] = Disposed(@, "extracted_dropped")]
    /\ dtor' = Ran(dtor, o, "caller")
    /\ result' = "none"
    /\ UNCHANGED <<debug, heap, env, news, mode, storage, tracker, slot, memory, freed, slots>>

\* the storages with a projected Slot that was not consumed yet
Pending == {s \in Storages : slot[s] # 0}

\* ------------------------------------------------------ writing in place
\* impl DerefMut for MoveRef: the place that `*mov = v` assigns to
\* mutant: the storage memory instead of the referent
deref_mut_storage(o) == handle[o].status

deref_mut(o) == handle[o].ptr

\* MoveRef::as_ptr(&self) and MoveRef::as_mut_ptr(&mut self)
as_ptr(o) == handle[o].ptr

as_mut_ptr(o) == handle[o].ptr

\* `*mov = v`: the assignment destroys the value that was there and moves v
\* in; the destructor obligation o of the place now stands for v
MoveRef_write(o, v) ==
    /\ mode = "running"
    /\ Live(o)
    /\ memory' = [memory EXCEPT ![deref_mut(o)] = [@ EXCEPT !.val = v]]
    /\ result' = "none"
    /\ UNCHANGED <<debug, heap, env, news, mode, storage, tracker, slot, handle, dtor, freed,
                   slots>>

\* construction, writes through the MoveRef, and the drops at scope exit
WriteNext ==
    \/ \E s \in Storages, k \in Kinds : SlotStorage_new(s, k)
    \/ \E s \in Storages : SlotStorage_slot(s)
    \/ \E s \in Pending : \E v \in Choices : Slot_put(s, v)
    \/ \E s \in Pending : \E v \in Choices : Box_deref_move(s, v)
    \/ \E o \in Objs, v \in Values : MoveRef_write(o, v)
    \/ \E o \in Objs : MoveRef_drop(o)
    \/ \E s \in Storages : SlotStorage_drop(s)

WriteSpec == Init /\ [][WriteNext]_vars

\* the operations that reach the tracker or only pass it along: projecting a
\* Slot, constructing (with and without success), pinning, writing through
\* the MoveRef, releasing, taking the value out, and the two drops
FrameNext ==
    \/ \E s \in Storages, k \in Kinds : SlotStorage_new(s, k)
    \/ \E s \in Storages : SlotStorage_slot(s)
    \/ \E s \in Pending : \E v \in Choices : Slot_put(s, v)
    \/ \E s \in Storages : TryEmplace(s, Err)
    \/ \E o \in Objs : MoveRef_into_pin(o)
    \/ \E o \in Objs, v \in Values : MoveRef_write(o, v)
    \/ \E o \in Objs : MoveRef_release(o)
    \/ \E o \in Objs : MoveRef_into_inner(o)
    \/ \E o \in Objs : MoveRef_drop(o)
    \/ \E s \in Storages : SlotStorage_drop(s)

FrameSpec == Init /\ [][FrameNext]_vars

\* --------------------------------------------------------------- Emplace
\* new::by(f) with a thunk that returns v: val = f() is taken at once, and the
\* initializer sets the destination to MaybeUninit::new(val)
\* mutant: the initializer writes a value other than the thunk's
by_other(v) == Ok(0)

by(v) == Ok(v)

\* Pin::new_unchecked(ptr) and Box::into_pin(ptr) of a smart pointer
Pin_new_unchecked(ptr) == [ptr EXCEPT !.pinned = TRUE]

\* the smart pointers that do not exist yet; they are made in order
Fresh == {p \in Ptrs : heap[p].state = "none"}

\* the three impls of Emplace::try_emplace: P::new(MaybeUninit::uninit()),
\* new.try_new(pin)? on the allocation, then P::from_raw(P::into_raw(uninit)
\* .cast::<T>()), pinned.  On Err the `?` returns and the P<MaybeUninit<T>>
\* goes out of scope: the allocation is freed and no destructor of T runs.
try_emplace(kind, new) ==
    LET uninit == [state |-> "live", kind |-> kind, pinned |-> FALSE,
                   cell |-> Uninit] IN
    IF new.ok
    THEN Pin_new_unchecked([uninit EXCEPT !.cell = try_new(new, 0)])
    ELSE [uninit EXCEPT !.state = "freed"]

Emplace_try_emplace(kind, new) ==
    /\ mode = "running"
    /\ Fresh # {}
    /\ \E p \in Fresh :
          /\ \A q \in Fresh : p <= q
          /\ heap' = [heap EXCEPT ![p] = try_emplace(kind, new)]
    /\ result' = IF new.ok THEN "ok" ELSE "err"
    /\ UNCHANGED <<debug, env, news, mode, storage, tracker, slot, memory, handle,
                   dtor, freed, slots>>

\* impl Emplace<T> for Box<T>, Rc<T>, Arc<T>
Box_try_emplace(new) == Emplace_try_emplace("Box", new)

Rc_try_emplace(new) == Emplace_try_emplace("Rc", new)

Arc_try_emplace(new) == Emplace_try_emplace("Arc", new)

\* Emplace::emplace(new) with new = new::by(|| v): the Ok of try_emplace
Box_emplace(v) == Box_try_emplace(by(v))

Rc_emplace(v) == Rc_try_emplace(by(v))

Arc_emplace(v) == Arc_try_emplace(by(v))

\* impl Deref of the pinned smart pointer: *out
Pointee(ptr) == ptr.cell.val

\* `out` goes out of scope: the only owner of the allocation drops the value
\* and frees the allocation
Pointer_drop(p) ==
    /\ mode = "running"
    /\ heap[p].state = "live"
    /\ heap' = [heap EXCEPT ![p] = [@ EXCEPT !.state = "dropped", !.cell = Dead(0)]]
    /\ result' = "none"
    /\ UNCHANGED <<debug, env, news, mode, storage, tracker, slot, memory, handle,
                   dtor, freed, slots>>

EmplaceNext ==
    \/ \E v \in Values : Box_emplace(v)
    \/ \E v \in Values : Rc_emplace(v)
    \/ \E v \in Values : Arc_emplace(v)
    \/ Box_try_emplace(Err)
    \/ Rc_try_emplace(Err)
    \/ Arc_try_emplace(Err)
    \/ \E p \in Ptrs : Pointer_drop(p)

EmplaceSpec == Init /\ [][EmplaceNext]_vars

\* ------------------------------------------------------------------ Next
\* ------------------------------------------------------------------- new
\* the thunks a caller passes: one that reads a variable of the caller, and
\* one that returns a value it holds (new::of's `|| return val`, and
\* Default::default, whose value is written 0)
Reads == [kind |-> "reads", val |-> 0]
Holds(v) == [kind |-> "holds", val |-> v]
Default_default == Holds(0)

\* f()
Call(f) == IF f.kind = "reads" THEN env ELSE f.val

\* the Ns that do not exist yet; they are made in order
Unmade == {n \in News : news[n].state = "none"}

\* new::by(f): `let val = f();`, then by_raw of a closure that owns val
new_by(n, f) ==
    /\ mode = "running"
    /\ n \in Unmade
    /\ \A m \in Unmade : n <= m
    /\ news' = [news EXCEPT ![n] =
                  [state |-> "made", val |-> Call(f), calls |-> @.calls + 1,
                   dst |-> 0]]
    /\ result' = "none"
    /\ UNCHANGED <<debug, heap, env, mode, storage, tracker, slot, memory, handle,
                   dtor, freed, slots>>

\* new::of(val) = by(|| return val)
new_of(n, v) == new_by(n, Holds(v))

\* new::default() = by(Default::default)
new_default(n) == new_by(n, Default_default)

\* the caller's variable that its thunk reads is assigned
Caller_assign(v) ==
    /\ mode = "running"
    /\ v # env
    /\ env' = v
    /\ result' = "none"
    /\ UNCHANGED <<debug, heap, news, mode, storage, tracker, slot, memory, handle,
                   dtor, freed, slots>>

\* FnNew::new(self, this) of the FnNew that by returned: (self.initializer)(this)
\* with the closure |mut dst| dst.set(MaybeUninit::new(val)): the value set,
\* and how often the thunk has run afterwards
\* mutant: the thunk is kept in the closure and runs when the value is placed
FnNew_new_lazy(nw) == [new |-> Ok(env), calls |-> nw.calls + 1]

FnNew_new(nw) == [new |-> Ok(nw.val), calls |-> nw.calls]

\* Box::emplace(new) of a New made before
Box_emplace_new(n) ==
    /\ mode = "running"
    /\ news[n].state = "made"
    /\ Fresh # {}
    /\ \E p \in Fresh :
          /\ \A q \in Fresh : p <= q
          /\ heap' = [heap EXCEPT ![p] = try_emplace("Box", FnNew_new(news[n]).new)]
          /\ news' = [news EXCEPT ![n] =
                        [@ EXCEPT !.state = "placed", !.dst = p,
                                  !.calls = FnNew_new(news[n]).calls]]
    /\ result' = "ok"
    /\ UNCHANGED <<debug, env, mode, storage, tracker, slot, memory, handle, dtor,
                   freed, slots>>

\* the New goes out of scope without having been placed: the closure and the
\* value it owns are dropped
New_drop(n) ==
    /\ mode = "running"
    /\ news[n].state = "made"
    /\ news' = [news EXCEPT ![n] = [@ EXCEPT !.state = "dropped"]]
    /\ result' = "none"
    /\ UNCHANGED <<debug, heap, env, mode, storage, tracker, slot, memory, handle,
                   dtor, freed, slots>>

NewNext ==
    \/ \E n \in News : new_by(n, Reads)
    \/ \E n \in News, v \in Values : new_of(n, v)
    \/ \E n \in News : new_default(n)
    \/ \E v \in Values : Caller_assign(v)
    \/ \E n \in News : Box_emplace_new(n)
    \/ \E n \in News : New_drop(n)
    \/ \E p \in Ptrs : Pointer_drop(p)

NewSpec == Init /\ [][NewNext]_vars

Next ==
    \/ \E s \in Storages, k \in Kinds : SlotStorage_new(s, k)
    \/ \E s \in Storages : SlotStorage_slot(s)
    \/ \E s \in Storages : SlotStorage_drop(s)
    \/ \E s \in Storages : Slot_discard(s)
    \/ \E s \in Pending : \E v \in Choices : TryEmplace(s, Ok(v))
    \/ \E s \in Storages : TryEmplace(s, Err)
    \/ \E s \in Pending : \E v \in Choices : Slot_emplace(s, v)
    \/ \E s \in Pending : \E v \in Choices : Slot_pin(s, v)
    \/ \E s \in Pending : \E v \in Choices : Slot_put(s, v)
    \/ \E s \in Pending : \E v \in Choices : Box_deref_move(s, v)
    \/ \E s \in Pending : \E v \in Choices : Box_into_move(s, v)
    \/ \E s \in Pending : \E v \in Choices : PinBox_into_move(s, v)
    \/ \E o \in Objs : MoveRef_drop(o)
    \/ \E o \in Objs : MoveRef_into_pin(o)
    \/ \E o \in Objs, r \in Storages : MoveRef_deref_move(o, r)
    \/ \E o \in Objs, r \in Storages : MoveRef_into_move(o, r)
    \/ \E o \in Objs : MoveRef_release(o)
    \/ \E o \in Objs : MoveRef_into_inner(o)
    \/ \E o \in Objs : MoveNew_move_new(o)
    \/ \E o \in Objs : mem_forget(o)
    \/ \E o \in Objs : manual_destroy(o)
    \/ \E o \in Objs : drop_extracted(o)

Spec == Init /\ [][Next]_vars

TypeOK ==
    /\ debug \in BOOLEAN
    /\ mode \in {"running", "panicking", "aborted"}
    /\ slots \in 0..MaxSlots

\* ================================================================ claims
\* how often the destructor of object o ran, whoever ran it
Runs(o) == dtor[o].handle + dtor[o].storage + dtor[o].caller

Gone(s) == storage[s].state \in {"dropped", "aborted"}

\* the only construction call storage s received reported an error
FailedOnly(s) ==
    /\ storage[s].built = 1
    /\ \A o \in Objs : handle[o].status # s

\* C1: for both drop kinds, a MoveRef that goes out of scope naturally has its
\* referent's destructor run exactly once over new -> slot -> construct ->
\* MoveRef drop -> SlotStorage drop.
C1_DestructorRunsOnce ==
    \A o \in Objs :
        LET s == handle[o].status IN
        (/\ handle[o].state = "dropped"
         /\ storage[s].built = 1
         /\ storage[s].state = "dropped")
        => Runs(o) = 1

\* C2: a try_emplace whose construction procedure reports an error returns
\* the error and leaves the tracker of a fresh storage as it was:
\* initialized = false, released = false, references = 0.
C2_FailedTryEmplaceLeavesTracker ==
    [][\A s \in Storages :
          (TryEmplace(s, Err) /\ tracker[s] = SlotStorageTracker_new)
          => (result' = "err" /\ tracker'[s] = SlotStorageTracker_new)]_vars

\* C3: after a try_emplace that failed, the drop of the storage sees the
\* tracker as uninitialized and returns without a destructor call or abort.
C3_FailedTryEmplaceThenSilentDrop ==
    \A s \in Storages :
        (FailedOnly(s) /\ Gone(s))
        => (storage[s].state = "dropped" /\ storage[s].exit = "uninit")

\* C4: once a live MoveRef was forgotten, the drop of its backing storage
\* never returns normally; it takes the fatal path.
C4_ForgottenAlwaysAborts ==
    \A o \in Objs :
        handle[o].state = "forgotten"
        => storage[handle[o].status].state # "dropped"

\* C5: after MoveRef::release, for both drop kinds, neither the disposal of
\* the MoveRef nor the drop of the storage runs the referent's destructor.
C5_ReleaseInhibitsDrop ==
    \A o \in Objs :
        handle[o].state \in {"released", "destroyed"}
        => (dtor[o].handle = 0 /\ dtor[o].storage = 0)

\* C6: after MoveRef::release the drop of the storage does not take the
\* fatal leak path, whatever the reference count is.
C6_ReleasedNeverLeaks ==
    \A o \in Objs :
        handle[o].state \in {"released", "destroyed"}
        => (/\ storage[handle[o].status].state # "aborted"
            /\ storage[handle[o].status].exit # "abort")

C6_Witness ==
    \E o \in Objs :
        LET s == handle[o].status IN
        /\ handle[o].state = "released"
        /\ storage[s].state = "dropped"
        /\ tracker[s].references # 0
        /\ tracker[s].initialized

\* C7: after MoveRef::into_inner, for both drop kinds, the drop of the
\* storage neither runs the referent's destructor on the vacated memory nor
\* aborts.
C7_IntoInnerThenStorageDrop ==
    \A o \in Objs :
        handle[o].state \in {"extracted", "extracted_dropped"}
        => (/\ dtor[o].storage = 0
            /\ storage[handle[o].status].state # "aborted")

\* C8: into_inner returns the value the MoveRef was constructed with,
\* whether it came from put, pin, emplace, try_emplace or a deref-moved Box.
C8_IntoInnerRoundTrip ==
    [][\A o \in Objs :
          MoveRef_into_inner(o)
          => (/\ handle'[o].state = "extracted"
              /\ handle'[o].ret = handle[o].made)]_vars

C8_Witness ==
    /\ \E o \in Objs :
          /\ handle[o].state = "extracted"
          /\ storage[handle[o].status].ty = "box"
          /\ handle[o].ret = MaxVal
    /\ \E o \in Objs :
          /\ handle[o].state = "extracted"
          /\ storage[handle[o].status].ty = "val"
          /\ handle[o].ret = 1

\* C9: for every value v and both drop kinds, reading through the MoveRef
\* that Slot::put(v) returned yields v.
C9_PutThenDeref ==
    [][\A s \in Pending, v \in Values, o \in Objs :
          (o = slot[s] /\ Slot_put(s, v) /\ result' = "ok")
          => (Live(o)' /\ Deref(o)' = v)]_vars

C9_Witness ==
    \E o, p \in Objs :
        /\ Live(o) /\ ~handle[o].pinned /\ handle[o].ptr \in Storages
        /\ Live(p) /\ ~handle[p].pinned /\ handle[p].ptr \in Storages
        /\ storage[handle[o].status].kind = "Drop"
        /\ storage[handle[p].status].kind = "Keep"
        /\ Deref(o) = 1
        /\ Deref(p) = MaxVal

\* C10: SlotStorage::new starts the tracker at initialized = false,
\* released = false, references = 0, and the drop of a storage that never
\* received a construction call returns at once for both drop kinds: no
\* destructor runs, nothing is freed, nothing aborts.
C10_UnusedStorageDropIsNoOp ==
    [][\A s \in Storages :
          /\ (/\ storage[s].state = "absent"
              /\ storage'[s].state = "live"
              /\ \E k \in Kinds : SlotStorage_new(s, k))
                => tracker'[s] = SlotStorageTracker_new
          /\ (storage[s].state = "live" /\ storage[s].built = 0 /\ SlotStorage_drop(s))
                => (/\ tracker[s] = SlotStorageTracker_new
                    /\ storage'[s].state = "dropped"
                    /\ storage'[s].exit = "uninit"
                    /\ UNCHANGED <<mode, dtor, freed, memory>>)]_vars

C10_Witness ==
    \E s, r \in Storages :
        /\ storage[s].state = "dropped" /\ storage[s].kind = "Drop"
        /\ storage[r].state = "dropped" /\ storage[r].kind = "Keep"
        /\ storage[s].built = 0 /\ storage[r].built = 0
        /\ slots > 0

\* C11: deref-moving a MoveRef into a Slot of a fresh storage
\* (DerefMove::deref_move / IntoMove::into_move) returns a MoveRef with the
\* same pointer and the same status; no tracker changes, the fresh storage's
\* tracker stays uninitialized, and the drop of that storage is a no-op.
C11_DerefMoveOfMoveRef ==
    [][/\ \A r \in Pending, o \in Objs :
             (MoveRef_deref_move(o, r) \/ MoveRef_into_move(o, r))
             => (/\ Live(o)'
                 /\ handle'[o].ptr = handle[o].ptr
                 /\ handle'[o].status = handle[o].status
                 /\ tracker' = tracker
                 /\ is_uninitialized(tracker'[r]))
       /\ \A r \in Storages :
             (storage[r].ty = "unit" /\ SlotStorage_drop(r))
             => (/\ storage'[r].state = "dropped"
                 /\ storage'[r].exit = "uninit"
                 /\ UNCHANGED <<mode, dtor, freed, tracker>>)]_vars

C11_Witness ==
    \E r \in Storages :
        LET o == storage[r].lent IN
        /\ storage[r].ty = "unit"
        /\ storage[r].state = "dropped"
        /\ handle[o].state = "dropped"
        /\ storage[handle[o].status].state = "dropped"

\* C12: in every reachable state the reference count of every tracker is
\* 0 or 1, also when a further Slot is projected from a storage whose
\* previous Slot or MoveRef is gone.
C12_ReferenceCountZeroOrOne ==
    \A s \in Storages : tracker[s].references \in {0, 1}

\* C13: the reference count, incremented once at initialization, is
\* decremented once when the MoveRef is disposed of, on each of the three
\* paths drop, MoveRef::release and MoveRef::into_inner: the count is 0
\* after any of the three.
C13_DisposalDecrementsOnce ==
    [][\A o \in Objs :
          LET s == handle[o].status IN
          (/\ MoveRef_drop(o) \/ MoveRef_release(o) \/ MoveRef_into_inner(o)
           /\ tracker[s].references = 1)
          => tracker'[s].references = 0]_vars

\* the MoveRefs that successful constructions created from storage s
Of(s) == {o \in Objs : handle[o].status = s}

\* C14: if every MoveRef created from a storage was disposed of by drop,
\* release or into_inner before the storage is dropped, then at that drop
\* the count is zero or the released flag is set, and the drop does not take
\* the fatal leak path.
C14_DisposedThenNoLeak ==
    [][\A s \in Storages :
          (/\ SlotStorage_drop(s)
           /\ \A o \in Of(s) : handle[o].state # "forgotten")
          => (/\ tracker[s].references = 0 \/ tracker[s].released
              /\ storage'[s].state = "dropped")]_vars

\* the MoveRef of object o came from a Box deref-moved into a Drop-kind
\* storage that has no other use (bind!(m = &move *b)), and that storage
\* was dropped
BoxBound(o) ==
    LET s == handle[o].status IN
    /\ handle[o].state # "none"
    /\ storage[s].ty = "box"
    /\ storage[s].kind = "Drop"
    /\ storage[s].built = 1
    /\ storage[s].state = "dropped"

\* C15: for a Box<T> deref-moved into a MoveRef backed by a Drop-kind
\* storage, T's destructor runs exactly once when the MoveRef is dropped and
\* not at all inside the protocol when it is consumed by into_inner; the drop
\* of the storage never runs T's destructor and frees the heap allocation
\* exactly once.
C15_BoxDerefMove ==
    \A o \in Objs :
        BoxBound(o) =>
            /\ handle[o].state = "dropped"
                  => (dtor[o].handle = 1 /\ dtor[o].storage = 0 /\ freed[o] = 1)
            /\ handle[o].state \in {"extracted", "extracted_dropped"}
                  => (dtor[o].handle = 0 /\ dtor[o].storage = 0 /\ freed[o] = 1)

C15_Witness ==
    \E o, p \in Objs :
        /\ BoxBound(o) /\ handle[o].state = "dropped"
        /\ BoxBound(p) /\ handle[p].state = "extracted_dropped"
        /\ Runs(o) = 1 /\ Runs(p) = 1

\* C16: MoveRef::release runs no destructor, neither directly nor through
\* the drop of the unwrapped MoveRef inside release, and returns the address
\* of the referent, through which the constructed value is still readable
\* unchanged.
C16_ReleaseReturnsLivePointer ==
    [][\A o \in Objs :
          MoveRef_release(o)
          => (/\ dtor' = dtor
              /\ memory' = memory
              /\ handle'[o].raw = handle[o].ptr
              /\ memory'[handle'[o].raw].tag = "val"
              /\ memory'[handle'[o].raw].val = handle[o].made)]_vars

C16_Witness ==
    \E o \in Objs :
        /\ handle[o].state = "released"
        /\ Valid(o)
        /\ Load(handle[o].raw) = MaxVal
        /\ Runs(o) = 0
        /\ tracker[handle[o].status].released

\* C17: two MoveRefs holding a and b compare, order and hash exactly as a
\* and b do (eq, partial_cmp, lt, le, gt, ge, cmp, hash), so MoveRefs to
\* equal values compare equal although their addresses differ.
C17_ComparesAsReferent ==
    \A o, p \in Objs :
        (Live(o) /\ Live(p)) =>
            LET a == Deref(o)
                b == Deref(p) IN
            /\ MoveRef_eq(o, p) = (a = b)
            /\ MoveRef_partial_cmp(o, p) = Some(Ordering(a, b))
            /\ MoveRef_lt(o, p) = (a < b)
            /\ MoveRef_le(o, p) = (a <= b)
            /\ MoveRef_gt(o, p) = (a > b)
            /\ MoveRef_ge(o, p) = (a >= b)
            /\ MoveRef_cmp(o, p) = Ordering(a, b)
            /\ MoveRef_hash(o) = Fed(a)

C17_Witness ==
    \E o, p \in Objs :
        /\ Live(o) /\ Live(p)
        /\ handle[o].ptr # handle[p].ptr
        /\ Deref(o) = Deref(p)
        /\ MoveRef_eq(o, p)
        /\ MoveRef_cmp(o, p) = "Equal"

\* storage s was fresh when it was given to an into_move, and the MoveRef
\* that into_move returned was dropped
IntoMoved(s) ==
    \/ /\ storage[s].ty = "box"
       /\ storage[s].built = 1
       /\ \A o \in Of(s) : handle[o].state = "dropped"
    \/ /\ storage[s].ty = "unit"
       /\ handle[storage[s].lent].state = "dropped"

\* C18: for every value v, IntoMove::into_move of a Box holding v, of a
\* MoveRef holding v or of a Pin<Box> holding v, with a Slot of a fresh
\* storage, yields a pinned MoveRef that dereferences to v, and the drop of
\* that MoveRef and the drop of the storage complete without abort.
C18_IntoMove ==
    [][/\ \A s \in Pending, v \in Values, o \in Objs :
             (/\ o = slot[s]
              /\ storage[s].ty = "none"
              /\ Box_into_move(s, v) \/ PinBox_into_move(s, v))
             => (/\ result' = "ok"
                 /\ Live(o)'
                 /\ handle'[o].pinned
                 /\ Deref(o)' = v)
       /\ \A r \in Pending, o \in Objs :
             (storage[r].ty = "none" /\ MoveRef_into_move(o, r))
             => (/\ Live(o)'
                 /\ handle'[o].pinned
                 /\ Deref(o)' = Deref(o))
       /\ \A o \in Objs :
             (/\ handle[o].pinned
              /\ storage[handle[o].status].built = 1
              /\ MoveRef_drop(o))
             => (mode' = mode /\ handle'[o].state = "dropped")
       /\ \A s \in Storages :
             (IntoMoved(s) /\ SlotStorage_drop(s))
             => (mode' = mode /\ storage'[s].state = "dropped")]_vars

C18_Witness ==
    \E s, r \in Storages :
        /\ IntoMoved(s) /\ storage[s].ty = "box" /\ storage[s].state = "dropped"
        /\ IntoMoved(r) /\ storage[r].ty = "unit" /\ storage[r].state = "dropped"
        /\ mode = "running"

\* C19: MoveNew::move_new (trivial_move!) from a pinned MoveRef holding v
\* writes v into the destination, marks the source tracker released and runs
\* no destructor on the source referent; the drop of the source storage then
\* neither aborts nor destroys the moved-from memory.
\* (a handle whose value was moved out is in state "extracted")
C19_TrivialMove ==
    [][/\ \A o \in Objs :
             MoveNew_move_new(o)
             => (/\ handle'[o].ret = Deref(o)
                 /\ tracker'[handle[o].status].released
                 /\ dtor' = dtor)
       /\ \A s \in Storages :
             (/\ SlotStorage_drop(s)
              /\ storage[s].built = 1
              /\ \E o \in Of(s) : handle[o].state = "extracted")
             => (/\ storage'[s].state = "dropped"
                 /\ dtor' = dtor)]_vars

\* C20: for every value v, Emplace::emplace(new::by(|| v)) for Box, Rc and
\* Arc returns a pinned pointer of that kind that dereferences to v.
C20_EmplaceBy ==
    [][\A v \in Values, p \in Fresh :
          \A kind \in {"Box", "Rc", "Arc"} :
            (/\ \/ kind = "Box" /\ Box_emplace(v)
                \/ kind = "Rc" /\ Rc_emplace(v)
                \/ kind = "Arc" /\ Arc_emplace(v)
             /\ heap'[p] # heap[p])
            => (/\ result' = "ok"
                /\ heap'[p].state = "live"
                /\ heap'[p].kind = kind
                /\ heap'[p].pinned
                /\ Pointee(heap'[p]) = v)]_vars

C20_Witness ==
    /\ result = "ok"
    /\ \A kind \in {"Box", "Rc", "Arc"} :
          \E p \in Ptrs, v \in Values :
             /\ heap[p].state = "live"
             /\ heap[p].kind = kind
             /\ heap[p].pinned
             /\ Pointee(heap[p]) = v

C22_HandleDrop ==
    [][\A o \in Objs :
          (Live(o) /\ MoveRef_drop(o))
          => LET s == handle[o].status
                 v == memory[handle[o].ptr].obj IN
             IF tracker[s].released
             THEN tracker' = tracker /\ dtor' = dtor
             ELSE /\ tracker'[s].references = 0
                  /\ tracker'[s] = [tracker[s] EXCEPT !.references = 0]
                  /\ dtor' = [dtor EXCEPT ![v].handle = @ + 1]]_vars

\* the tracker right after the first successful construction
Constructed == [initialized |-> TRUE, released |-> FALSE, references |-> 1]

\* C23: right after a successful construction through a Slot of a fresh
\* storage (Slot::write, put, pin, emplace, or a try_emplace that returns Ok)
\* the tracker is initialized = true, released = false, references = 1.
C23_ConstructedTracker ==
    [][\A s \in Pending, v \in Values :
          (/\ storage[s].built = 0
           /\ \/ Box_deref_move(s, v)
              \/ Slot_put(s, v)
              \/ Slot_pin(s, v)
              \/ Slot_emplace(s, v)
              \/ TryEmplace(s, Ok(v)))
          => (result' = "ok" /\ tracker'[s] = Constructed)]_vars

C23_Witness ==
    /\ result = "ok"
    /\ \E s, r \in Storages :
          /\ storage[s].built = 1 /\ storage[s].ty = "box"
          /\ storage[r].built = 1 /\ storage[r].ty = "val"
          /\ tracker[s] = Constructed
          /\ tracker[r] = Constructed
          /\ \E o \in Of(r) : Live(o) /\ ~handle[o].pinned

\* C24: Slot::try_emplace flips the tracker to initialized only on success:
\* on a fresh storage the tracker is initialized after the call iff the call
\* returned Ok, and after a construction procedure that failed it still reads
\* initialized = false, references = 0.
C24_InitializedOnlyOnSuccess ==
    [][\A s \in Pending :
          \A new \in {Err} \cup {Ok(v) : v \in Values} :
            (storage[s].built = 0 /\ TryEmplace(s, new))
            => (/\ tracker'[s].initialized <=> result' = "ok"
                /\ result' # "ok" => is_uninitialized(tracker'[s]))]_vars

\* C25: the tracker flags are monotone: initialized goes from false to true
\* only in a step that writes a value into the storage, released goes from
\* false to true only in a step in which the caller detaches a MoveRef
\* (release, into_inner, move_new) and only on an initialized tracker, and
\* neither flag ever goes back to false.
C25_FlagsMonotone ==
    [][\A s \in Storages :
          /\ tracker[s].initialized => tracker'[s].initialized
          /\ tracker[s].released => tracker'[s].released
          /\ (~tracker[s].initialized /\ tracker'[s].initialized)
                => memory'[s].tag \in {"val", "box"}
          /\ (~tracker[s].released /\ tracker'[s].released)
                => (/\ tracker[s].initialized
                    /\ \E o \in Of(s) :
                          \/ MoveRef_release(o)
                          \/ MoveRef_into_inner(o)
                          \/ MoveNew_move_new(o))]_vars

\* C26: writing v through the DerefMut of a live MoveRef and then reading
\* through the MoveRef, through as_ptr or through as_mut_ptr yields v, and the
\* pointer of the MoveRef is the same before and after the write.
C26_WriteThenRead ==
    [][\A o \in Objs, v \in Values :
          (Live(o) /\ MoveRef_write(o, v))
          => (/\ Live(o)'
              /\ Deref(o)' = v
              /\ Load(as_ptr(o))' = v
              /\ Load(as_mut_ptr(o))' = v
              /\ as_ptr(o)' = as_ptr(o)
              /\ as_mut_ptr(o)' = as_mut_ptr(o)
              /\ handle'[o].ptr = handle[o].ptr)]_vars

\* a value in a storage and a value in a deref-moved Box were overwritten
C26_Witness ==
    \E o, p \in Objs :
        /\ Live(o) /\ storage[handle[o].status].ty = "val"
        /\ Live(p) /\ storage[handle[p].status].ty = "box"
        /\ Deref(o) # handle[o].made
        /\ Deref(p) # handle[p].made

\* C27: while a MoveRef is live its tracker has initialized = true,
\* released = false, references = 1, and at most one live MoveRef refers to
\* any tracker.
C27_LiveHandleTracker ==
    /\ \A o \in Objs : Live(o) => tracker[handle[o].status] = Constructed
    /\ \A s \in Storages : Cardinality({o \in Of(s) : Live(o)}) <= 1

\* C28: while a storage receives at most one construction call, none of the
\* tracker's assertions can fail, whether they are compiled in or not:
\* initialize is called on a tracker that is not initialized and whose count
\* is zero, and terminate on a count that is nonzero and zero afterwards.
C28_AssertionsHold ==
    [][/\ \A s \in Pending, v \in Values :
             (/\ storage[s].built = 0
              /\ \/ Box_deref_move(s, v)
                 \/ Box_into_move(s, v)
                 \/ Slot_put(s, v)
                 \/ Slot_pin(s, v)
                 \/ Slot_emplace(s, v)
                 \/ TryEmplace(s, Ok(v))
                 \/ TryEmplace(s, Err))
             => (/\ ~is_initialized(tracker[s])
                 /\ is_reference_zeroed(tracker[s])
                 /\ ~initialize_checked(TRUE, tracker[s]).panic
                 /\ mode' = mode)
       /\ \A o \in Objs :
             (/\ Live(o)
              /\ storage[handle[o].status].built = 1
              /\ ~is_released(tracker[handle[o].status])
              /\ MoveRef_drop(o))
             => (/\ ~is_reference_zeroed(tracker[handle[o].status])
                 /\ is_reference_zeroed(tracker'[handle[o].status])
                 /\ ~terminate_checked(TRUE, tracker[handle[o].status]).panic
                 /\ mode' = mode)]_vars

\* a build with the assertions compiled in constructed once through a storage
\* and dropped the MoveRef
C28_Witness ==
    \E o \in Objs :
        /\ debug
        /\ mode = "running"
        /\ handle[o].state = "dropped"
        /\ storage[handle[o].status].built = 1
        /\ tracker[handle[o].status]
             = [initialized |-> TRUE, released |-> FALSE, references |-> 0]

\* C29: in every reachable state references # 0 implies initialized, and a
\* storage whose drop went past the uninitialized test (to the fatal path or
\* to the drop-kind step) has an initialized tracker: no drop destroys the
\* memory of a storage whose tracker is not initialized.
C29_CountedImpliesInitialized ==
    \A s \in Storages :
        /\ ~is_reference_zeroed(tracker[s]) => is_initialized(tracker[s])
        /\ storage[s].exit \in {"abort", "drop", "keep"} => is_initialized(tracker[s])
        /\ storage[s].exit = "uninit" => ~is_initialized(tracker[s])

\* a Drop storage with an initialized tracker was dropped and destroyed its
\* value, and the drop of an unused storage returned at once
C29_Witness ==
    \E s, r \in Storages :
        /\ storage[s].exit = "drop"
        /\ \E o \in Of(s) : dtor[o].storage = 1
        /\ storage[r].exit = "uninit"
        /\ ~is_initialized(tracker[r])

\* C30: when the drop of a storage finds its tracker leaking (not released,
\* initialized, references # 0), it never reaches the drop-kind step: no
\* destructor runs, nothing is freed, and the drop does not return (the
\* process aborts), for both kinds.
C30_LeakNeverReachesDropKind ==
    [][\A s \in Storages :
          (/\ storage[s].state = "live"
           /\ ~tracker[s].released
           /\ tracker[s].initialized
           /\ tracker[s].references # 0
           /\ SlotStorage_drop(s))
          => (/\ storage[s].kind \in Kinds
              /\ storage'[s].state = "aborted"
              /\ storage'[s].exit = "abort"
              /\ mode' = "aborted"
              /\ UNCHANGED <<dtor, freed>>)]_vars

\* a Drop storage whose MoveRef was forgotten took the fatal path, with the
\* value's destructor never run
C30_Witness ==
    \E s \in Storages, o \in Objs :
        /\ storage[s].kind = "Drop"
        /\ storage[s].exit = "abort"
        /\ handle[o].status = s
        /\ handle[o].state = "forgotten"
        /\ Runs(o) = 0
        /\ mode = "aborted"

\* C31: SlotStorage::slot, MoveRef::into_pin and a write through DerefMut
\* (the pointer that Deref, DerefMut, as_ptr and as_mut_ptr all return) leave
\* every tracker as it is; the tracker of a storage changes only when a Slot
\* of it is constructed into (initialize: released is kept), when its MoveRef
\* is released or its value taken out (only released changes, to TRUE), or
\* when its MoveRef is dropped (only references changes, by one).
C31_TrackerFrame ==
    [][/\ (\E s \in Storages : SlotStorage_slot(s)) => UNCHANGED tracker
       /\ (\E o \in Objs : MoveRef_into_pin(o)) => UNCHANGED tracker
       /\ (\E o \in Objs, v \in Values : MoveRef_write(o, v)) => UNCHANGED tracker
       /\ \A s \in Storages :
            (storage[s].state = "live" /\ tracker'[s] # tracker[s])
            => \/ /\ slot[s] # 0
                  /\ slot'[s] = 0
                  /\ tracker'[s].initialized
                  /\ tracker'[s].released = tracker[s].released
                  /\ tracker'[s].references \in
                         {tracker[s].references, tracker[s].references + 1}
               \/ \E o \in Objs :
                     /\ Live(o)
                     /\ handle[o].status = s
                     /\ handle'[o].state \in {"released", "extracted"}
                     /\ tracker'[s] = release(tracker[s])
               \/ \E o \in Objs :
                     /\ Live(o)
                     /\ handle[o].status = s
                     /\ handle'[o].state = "dropped"
                     /\ tracker'[s] = terminate(tracker[s])]_vars

\* a MoveRef that was pinned and whose referent was overwritten, on a
\* storage whose tracker still reads as construction left it
C31_Witness ==
    \E s \in Storages, o \in Objs :
        /\ Live(o)
        /\ handle[o].status = s
        /\ handle[o].pinned
        /\ memory[handle[o].ptr].val # handle[o].made
        /\ storage[s].built = 1
        /\ tracker[s] = Constructed

\* C32: new::by(f), and with it new::of and new::default, runs the thunk f
\* exactly once, when by is called: the New holds the value f returned then,
\* whether or not it is placed later; placing it runs no thunk and writes
\* that value, whatever f would return by then.
C32_ThunkRunsOnceAtBy ==
    [][\A n \in News :
          /\ (news[n].state = "none" /\ news'[n].state # "none")
             => (/\ news'[n].state = "made"
                 /\ news'[n].calls = 1
                 /\ new_by(n, Reads) => news'[n].val = env
                 /\ (\A v \in Values : new_of(n, v) => news'[n].val = v)
                 /\ UNCHANGED <<heap, memory>>)
          /\ news[n].state # "none"
             => (/\ news'[n].calls = 1
                 /\ news'[n].val = news[n].val)
          /\ Box_emplace_new(n)
             => \E p \in Fresh :
                   /\ news'[n].dst = p
                   /\ heap'[p].state = "live"
                   /\ Pointee(heap'[p]) = news[n].val]_vars

\* a New was placed after the caller's variable had changed and the pointer
\* holds the value of the time of by, while another New was never placed and
\* its thunk has run once all the same
C32_Witness ==
    \E n, m \in News :
        /\ news[n].state = "placed"
        /\ heap[news[n].dst].state = "live"
        /\ Pointee(heap[news[n].dst]) = news[n].val
        /\ news[n].val # env
        /\ news[m].state = "dropped"
        /\ news[m].calls = 1

====
